---- MODULE Spec2Model ----
(***************************************************************************)
(* A model of visualize/src/convert_to_geotiff.py and                      *)
(* visualize/src/plot_complex_data.py.                                     *)
(*                                                                         *)
(* Python strings are sequences of one-character strings, so that          *)
(* str.endswith, the `in` substring test, os.path.join, os.path.basename   *)
(* and os.path.abspath are computed character by character.              *)
(* The file system is a set of directories and a set of regular files,     *)
(* each a normalised absolute path given as a sequence of components.      *)
(***************************************************************************)
EXTENDS Integers, Sequences, FiniteSets, TLC

(***************************************************************************)
(* String literals of the source.                                          *)
(***************************************************************************)
SEP == "/"

DemSuffix == <<"d","e","m",".","w","g","s","8","4",".","v","r","t">>

DemWord == <<"d","e","m">>

InterferogramDirName == <<"i","n","t","e","r","f","e","r","o","g","r","a","m">>

UnwFileName ==
    <<"f","i","l","t","_","t","o","p","o","p","h","a","s","e",
      ".","u","n","w",".","v","r","t">>

DemOutTail == <<"_","d","e","m",".","t","i","f">>

InterferogramOutTail ==
    <<"_","i","n","t","e","r","f","e","r","o","g","r","a","m",".","t","i","f">>

CorrelationOutTail ==
    <<"_","c","o","r","r","e","l","a","t","i","o","n",".","t","i","f">>

(***************************************************************************)
(* str methods and os.path functions (posixpath).                          *)
(***************************************************************************)
\* s.startswith(pre)
StartsWith(s, pre) ==
    /\ Len(pre) <= Len(s)
    /\ SubSeq(s, 1, Len(pre)) = pre

\* s.endswith(suf)
EndsWith(s, suf) ==
    /\ Len(suf) <= Len(s)
    /\ SubSeq(s, Len(s) - Len(suf) + 1, Len(s)) = suf

\* sub in s
Contains(s, sub) ==
    \E i \in 0..(Len(s) - Len(sub)) : SubSeq(s, i + 1, i + Len(sub)) = sub

\* s.rfind('/') + 1 : the index just after the last separator, 0 without one
AfterLastSep(s) ==
    LET idx == {i \in 1..Len(s) : s[i] = SEP}
    IN  IF idx = {} THEN 0 ELSE CHOOSE i \in idx : \A j \in idx : j <= i

\* os.path.basename(p)
Basename(p) == SubSeq(p, AfterLastSep(p) + 1, Len(p))

\* os.path.join(a, b)
PathJoin(a, b) ==
    IF StartsWith(b, <<SEP>>) THEN b
    ELSE IF a = <<>> \/ EndsWith(a, <<SEP>>) THEN a \o b
    ELSE a \o <<SEP>> \o b

\* path.split('/')
RECURSIVE SplitSep(_)
SplitSep(s) ==
    LET idx == {i \in 1..Len(s) : s[i] = SEP}
    IN  IF idx = {} THEN <<s>>
        ELSE LET i == CHOOSE k \in idx : \A j \in idx : k <= j
             IN  <<SubSeq(s, 1, i - 1)>> \o SplitSep(SubSeq(s, i + 1, Len(s)))

\* the loop of posixpath.normpath over the components
RECURSIVE NormComps(_, _, _)
NormComps(comps, new, absolute) ==
    IF comps = <<>> THEN new
    ELSE LET c == Head(comps)
             rest == Tail(comps)
         IN  IF c = <<>> \/ c = <<".">> THEN NormComps(rest, new, absolute)
             ELSE IF \/ c # <<".", ".">>
                     \/ (~absolute /\ new = <<>>)
                     \/ (new # <<>> /\ new[Len(new)] = <<".", ".">>)
                  THEN NormComps(rest, Append(new, c), absolute)
             ELSE IF new # <<>>
                  THEN NormComps(rest, SubSeq(new, 1, Len(new) - 1), absolute)
             ELSE NormComps(rest, new, absolute)

\* '/'.join(comps)
RECURSIVE JoinSep(_)
JoinSep(comps) ==
    IF comps = <<>> THEN <<>>
    ELSE IF Len(comps) = 1 THEN comps[1]
    ELSE comps[1] \o <<SEP>> \o JoinSep(Tail(comps))

\* os.path.normpath(path)
NormPath(path) ==
    IF path = <<>> THEN <<".">>
    ELSE LET slashes == IF ~StartsWith(path, <<SEP>>) THEN <<>>
                        ELSE IF StartsWith(path, <<SEP, SEP>>)
                                /\ ~StartsWith(path, <<SEP, SEP, SEP>>)
                             THEN <<SEP, SEP>>
                             ELSE <<SEP>>
             body == JoinSep(NormComps(SplitSep(path), <<>>, slashes # <<>>))
             out == slashes \o body
         IN  IF out = <<>> THEN <<".">> ELSE out

\* os.getcwd()
Cwd == <<SEP, "w">>

\* os.path.abspath(path)
AbsPath(path) ==
    NormPath(IF StartsWith(path, <<SEP>>) THEN path ELSE PathJoin(Cwd, path))

\* the components of os.path.abspath(path)
AbsComponents(path) ==
    SelectSeq(SplitSep(AbsPath(path)), LAMBDA c : c # <<>>)

\* s.rstrip('/')
RECURSIVE RStripSep(_)
RStripSep(s) ==
    IF s # <<>> /\ s[Len(s)] = SEP THEN RStripSep(SubSeq(s, 1, Len(s) - 1))
    ELSE s

\* os.path.split(p)
Split(p) ==
    LET i == AfterLastSep(p)
        head == SubSeq(p, 1, i)
    IN  [head |-> IF head # <<>> /\ RStripSep(head) # <<>>
                  THEN RStripSep(head) ELSE head,
         tail |-> SubSeq(p, i + 1, Len(p))]

(***************************************************************************)
(* Optional arguments: <<>> is Python's None, <<v>> is the value v.        *)
(***************************************************************************)
NoneArg == <<>>

Some(v) == <<v>>

\* Python truthiness of an optional string: None and '' are falsy
Truthy(opt) == opt # <<>> /\ opt[1] # <<>>

\* a dict with no key
EmptyDict == [k \in {} |-> <<>>]

\* one printed line: the job it reports ("" for none), its fixed text, the
\* path it interpolates (<<>> for none) and the exception it interpolates
\* ("" for none)
Printed(job, line, path, err) ==
    [job |-> job, line |-> line, path |-> path, err |-> err]

(***************************************************************************)
(* State.                                                                  *)
(*   entry        the function the run starts in                           *)
(*   pc           the position in main / find_vrt_files / the entry        *)
(*   status       "running", "returned" or "raised" (the entry's outcome)  *)
(*   exc          the exception that ended the run ("" while none)         *)
(*   fs           the file system: [dirs, files, made], files a function   *)
(*                from the resolved path to the raster stored there, made  *)
(*                the directories the run created                          *)
(*   args         argparse's namespace: [input_dir, output_dir]            *)
(*   base_dir     main's input_dir / the base_dir parameter                *)
(*   found        the dict built by add_dem_and_interferogram_to_vrt       *)
(*   vrt_files    the caller's vrt_files (no key while unassigned)         *)
(*   output_files the dict returned by generate_output_file_names          *)
(*   prev         the outcome of the previous generate_output_file_names   *)
(*   log          the lines printed                                        *)
(*   calls        the functions called so far, in order; a call of         *)
(*                create_geotiff is named by the try block that makes it   *)
(*   cg           the frame of create_geotiff                              *)
(*   pl           the frame of plot_complex_data                           *)
(*   handles      the raster handles that are open                         *)
(***************************************************************************)
VARIABLES entry, pc, status, exc, fs, args, base_dir, found, vrt_files,
          output_files, prev, log, calls, cg, pl, handles

vars == <<entry, pc, status, exc, fs, args, base_dir, found, vrt_files,
          output_files, prev, log, calls, cg, pl, handles>>

(***************************************************************************)
(* File system queries.                                                    *)
(***************************************************************************)
\* The operating system resolves a path against the tree, component by
\* component: every component is looked up in the place reached so far, which
\* must be an existing directory, also for an empty, "." or ".." component.
\* The place of the last component need not exist.  The empty path names
\* nothing.
NotFound == [ok |-> FALSE, at |-> <<>>]

RECURSIVE Walk(_, _, _)
Walk(dirs, comps, cur) ==
    IF comps = <<>> THEN [ok |-> TRUE, at |-> cur]
    ELSE IF cur \notin dirs THEN NotFound
    ELSE LET c == Head(comps)
         IN  IF c = <<>> \/ c = <<".">> THEN Walk(dirs, Tail(comps), cur)
             ELSE IF c = <<".", ".">>
               THEN Walk(dirs, Tail(comps),
                         IF cur = <<>> THEN cur
                         ELSE SubSeq(cur, 1, Len(cur) - 1))
             ELSE Walk(dirs, Tail(comps), Append(cur, c))

LookupIn(dirs, path) ==
    IF path = <<>> THEN NotFound
    ELSE IF StartsWith(path, <<SEP>>) THEN Walk(dirs, SplitSep(path), <<>>)
    ELSE Walk(dirs, SplitSep(path), AbsComponents(Cwd))

Lookup(path) == LookupIn(fs.dirs, path)

\* os.path.isdir(path)
IsDirIn(dirs, path) ==
    LookupIn(dirs, path).ok /\ LookupIn(dirs, path).at \in dirs

IsDir(path) == IsDirIn(fs.dirs, path)

\* os.path.exists(path)
ExistsIn(dirs, files, path) ==
    /\ LookupIn(dirs, path).ok
    /\ LookupIn(dirs, path).at \in dirs \cup files

Exists(path) == ExistsIn(fs.dirs, DOMAIN fs.files, path)

\* os.listdir(path) of a directory: the names directly under it
ListDir(path) ==
    {p[Len(p)] : p \in {q \in fs.dirs \cup DOMAIN fs.files :
                            /\ Len(q) = Len(Lookup(path).at) + 1
                            /\ SubSeq(q, 1, Len(q) - 1) = Lookup(path).at}}

\* the prefixes of a resolved path, the path itself included
Ancestors(r) == {SubSeq(r, 1, n) : n \in 0..Len(r)}

(***************************************************************************)
(* Rasters.  A raster file holds its driver, sample type, band count,      *)
(* coordinate reference system, affine transform, grid shape and bands.    *)
(* A file that is no raster (rasterio.open raises on it) has valid FALSE.  *)
(***************************************************************************)
Raster(driver, dtype, crs, transform, shape, bands) ==
    [valid |-> TRUE, driver |-> driver, dtype |-> dtype, count |-> Len(bands),
     crs |-> crs, transform |-> transform, shape |-> shape, bands |-> bands]

NotARaster ==
    [valid |-> FALSE, driver |-> "", dtype |-> "", count |-> 0,
     crs |-> "", transform |-> "", shape |-> "", bands |-> <<>>]

\* rasterio.open(path) succeeds: the path is a regular file holding a raster
CanOpen(path) ==
    /\ Lookup(path).ok
    /\ Lookup(path).at \in DOMAIN fs.files
    /\ fs.files[Lookup(path).at].valid

\* the dataset behind an open handle
Dataset(path) == fs.files[Lookup(path).at]

(***************************************************************************)
(* find_dem_file                                                           *)
(***************************************************************************)
\* the entries picked when the test is `in` instead of str.endswith
DemCandidatesContaining(dir) ==
    {file \in ListDir(dir) : Contains(file, DemSuffix)}

\* the entries of base_dir that pass the test of line 64
DemCandidates(dir) == {file \in ListDir(dir) : EndsWith(file, DemSuffix)}

Raise(e) ==
    /\ status' = "raised"
    /\ exc' = e
    /\ pc' = "end"

Return ==
    /\ status' = "returned"
    /\ exc' = exc
    /\ pc' = "end"

\* os.listdir returns the entries in arbitrary order: the loop returns on
\* the first entry with the suffix, which may be any of the candidates
FindDemFile ==
    /\ pc = "find_dem"
    /\ calls' = Append(calls, "find_dem_file")
    /\ IF ~IsDir(base_dir)
         THEN /\ Raise("OSError: listdir")
              /\ UNCHANGED <<found, log>>
       ELSE IF DemCandidates(base_dir) = {}
         THEN /\ Raise("ValueError: DEM file not found")
              /\ UNCHANGED <<found, log>>
       ELSE \E file \in DemCandidates(base_dir) :
              /\ found' = [dem |-> PathJoin(base_dir, file)]
              /\ log' = Append(log, Printed("", "Found WGS84 DEM file",
                                          PathJoin(base_dir, file), ""))
              /\ pc' = "find_ifg"
              /\ UNCHANGED <<status, exc>>
    /\ UNCHANGED <<entry, fs, args, base_dir, vrt_files, output_files, prev,
                   cg, pl, handles>>

(***************************************************************************)
(* find_interferogram_file                                                 *)
(***************************************************************************)
InterferogramDir(dir) == PathJoin(dir, InterferogramDirName)

UnwFile(dir) == PathJoin(InterferogramDir(dir), UnwFileName)

FindInterferogramFile ==
    /\ pc = "find_ifg"
    /\ calls' = Append(calls, "find_interferogram_file")
    /\ IF ~IsDir(InterferogramDir(base_dir))
         THEN /\ Raise("ValueError: interferogram directory not found")
              /\ UNCHANGED <<found, log>>
       ELSE IF Exists(UnwFile(base_dir))
         THEN /\ found' = [dem |-> found.dem,
                           interferogram |-> UnwFile(base_dir)]
              /\ log' = Append(log,
                       Printed("", "Found unwrapped interferogram file",
                               UnwFile(base_dir), ""))
              /\ pc' = "validate"
              /\ UNCHANGED <<status, exc>>
       ELSE /\ Raise("ValueError: interferogram file not found")
            /\ UNCHANGED <<found, log>>
    /\ UNCHANGED <<entry, fs, args, base_dir, vrt_files, output_files, prev,
                   cg, pl, handles>>

(***************************************************************************)
(* validate_vrt_files                                                      *)
(***************************************************************************)
\* required_files['dem']
ValidDem(f) == EndsWith(f, DemSuffix)

\* required_files['interferogram']
ValidInterferogram(f) == f = UnwFileName

\* the first error of the loop over required_files ("" when it ends)
ValidateError(d) ==
    IF "dem" \notin DOMAIN d THEN "ValueError: Dem .vrt file not found"
    ELSE IF ~ValidDem(Basename(d.dem)) THEN "ValueError: Invalid dem file"
    ELSE IF "interferogram" \notin DOMAIN d
      THEN "ValueError: Interferogram .vrt file not found"
    ELSE IF ~ValidInterferogram(Basename(d.interferogram))
      THEN "ValueError: Invalid interferogram file"
    ELSE ""

\* validate_vrt_files(found), and lines 128-131 of find_vrt_files after it
ValidateVrtFiles ==
    /\ pc = "validate"
    /\ calls' = Append(calls, "validate_vrt_files")
    /\ IF ValidateError(found) # ""
         THEN /\ Raise(ValidateError(found))
              /\ UNCHANGED vrt_files
       ELSE IF entry = "main"
         THEN /\ vrt_files' = found
              /\ pc' = "generate"
              /\ UNCHANGED <<status, exc>>
       ELSE /\ vrt_files' = IF entry = "find_vrt_files" THEN found
                            ELSE vrt_files
            /\ Return
    /\ UNCHANGED <<entry, fs, args, base_dir, found, output_files, prev, log,
                   cg, pl, handles>>

(***************************************************************************)
(* generate_output_file_names                                              *)
(***************************************************************************)
SceneName(input_dir) == Basename(input_dir)

SceneOutputDir(output_dir, input_dir) ==
    PathJoin(output_dir, SceneName(input_dir))

OutputFileNames(output_dir, input_dir) ==
    [dem |-> PathJoin(SceneOutputDir(output_dir, input_dir),
                      SceneName(input_dir) \o DemOutTail),
     interferogram |-> PathJoin(SceneOutputDir(output_dir, input_dir),
                                SceneName(input_dir) \o InterferogramOutTail),
     correlation |-> PathJoin(SceneOutputDir(output_dir, input_dir),
                              SceneName(input_dir) \o CorrelationOutTail)]

\* os.mkdir(name): the error it raises, "" when it creates the directory.
\* The kernel ignores trailing separators of the name.
MkdirError(dirs, files, name) ==
    IF name = <<>> THEN "OSError"
    ELSE IF RStripSep(name) = <<>> THEN "FileExistsError"
    ELSE IF ~LookupIn(dirs, RStripSep(name)).ok THEN "OSError"
    ELSE IF LookupIn(dirs, RStripSep(name)).at \in dirs \cup files
      THEN "FileExistsError"
    ELSE ""

\* os.makedirs(name, exist_ok=exist_ok): the error it raises ("" for none)
\* and the directories it leaves
RECURSIVE MakedirsIn(_, _, _, _)
MakedirsIn(dirs, files, name, exist_ok) ==
    LET first == Split(name)
        s == IF first.tail = <<>> THEN Split(first.head) ELSE first
        missing == s.head # <<>> /\ s.tail # <<>>
                   /\ ~ExistsIn(dirs, files, s.head)
        up == IF missing THEN MakedirsIn(dirs, files, s.head, exist_ok)
              ELSE [err |-> "", dirs |-> dirs]
        e == MkdirError(up.dirs, files, name)
    IN  IF up.err \notin {"", "FileExistsError"} THEN up
        ELSE IF missing /\ s.tail = <<".">>
          THEN [err |-> "", dirs |-> up.dirs]
        ELSE IF e = ""
          THEN [err |-> "",
                dirs |-> up.dirs \cup {LookupIn(up.dirs, RStripSep(name)).at}]
        ELSE IF exist_ok /\ IsDirIn(up.dirs, name)
          THEN [err |-> "", dirs |-> up.dirs]
        ELSE [err |-> e, dirs |-> up.dirs]

\* os.makedirs(name) with exist_ok left False
MakedirsNoExistOk(name) == MakedirsIn(fs.dirs, DOMAIN fs.files, name, FALSE)

\* os.makedirs(scene_output_dir, exist_ok=True)
Makedirs(name) == MakedirsIn(fs.dirs, DOMAIN fs.files, name, TRUE)

\* one call of generate_output_file_names(vrt_files, args.output_dir, base_dir)
Generate(next) ==
    /\ calls' = Append(calls, "generate_output_file_names")
    /\ fs' = [fs EXCEPT
           !.dirs = Makedirs(SceneOutputDir(args.output_dir, base_dir)).dirs,
           !.made = @ \cup
               (Makedirs(SceneOutputDir(args.output_dir, base_dir)).dirs
                \ fs.dirs)]
    /\ IF Makedirs(SceneOutputDir(args.output_dir, base_dir)).err # ""
         THEN /\ Raise("OSError: makedirs")
              /\ UNCHANGED output_files
       ELSE /\ output_files' = OutputFileNames(args.output_dir, base_dir)
            /\ IF next = "end" THEN Return
               ELSE /\ pc' = next
                    /\ UNCHANGED <<status, exc>>
    /\ UNCHANGED <<entry, args, base_dir, found, vrt_files, cg, pl, handles>>

\* lines 260-262: the header, then one line per path in the order of the dict
OutputLines(files) ==
    <<Printed("", "Output files will be created at", <<>>, ""),
      Printed("", "  - ", files.dem, ""),
      Printed("", "  - ", files.interferogram, ""),
      Printed("", "  - ", files.correlation, "")>>

\* the call of line 257, and in main lines 259-262 after it
GenerateOutputFileNames ==
    /\ pc = "generate"
    /\ log' = IF entry = "main"
                 /\ Makedirs(SceneOutputDir(args.output_dir, base_dir)).err = ""
              THEN log \o OutputLines(OutputFileNames(args.output_dir, base_dir))
              ELSE log
    /\ UNCHANGED prev
    /\ Generate(IF entry = "main" THEN "convert_dem" ELSE "generate_again")

\* a second call with the same arguments; prev keeps what the first call
\* returned and the directories it left
GenerateAgain ==
    /\ pc = "generate_again"
    /\ prev' = [called |-> TRUE, files |-> output_files, dirs |-> fs.dirs]
    /\ UNCHANGED log
    /\ Generate("end")

(***************************************************************************)
(* create_geotiff, one action per statement that opens, reads, writes or   *)
(* closes a raster.  cg.pc is the position in the function.                *)
(***************************************************************************)
NoMeta ==
    [driver |-> "", dtype |-> "", count |-> 0, crs |-> "", transform |-> "",
     shape |-> ""]

CgIdle ==
    [pc |-> "idle", input_file |-> <<>>, output_file |-> <<>>,
     dem_file_path |-> NoneArg, band |-> 0, data |-> <<>>, meta |-> NoMeta,
     result |-> "none", error |-> ""]

CgCall(input_file, output_file, dem_file_path, band) ==
    [CgIdle EXCEPT !.pc = "open_src", !.input_file = input_file,
                   !.output_file = output_file,
                   !.dem_file_path = dem_file_path, !.band = band]

\* src.meta
Meta(ds) ==
    [driver |-> ds.driver, dtype |-> ds.dtype, count |-> ds.count,
     crs |-> ds.crs, transform |-> ds.transform, shape |-> ds.shape]

\* the condition of line 30
UsesReference(input_file, dem_file_path) ==
    Truthy(dem_file_path) /\ ~Contains(input_file, DemWord)

\* a meta.update that takes the coordinate reference system and leaves the
\* transform read from the input
MetaUpdateCrsOnly(meta, crs, transform) ==
    [meta EXCEPT !.count = 1, !.dtype = "float32", !.driver = "GTiff",
                 !.crs = crs]

\* meta.update of lines 32-38 and 40-46, the referencing taken from ds
MetaUpdate(meta, crs, transform) ==
    [meta EXCEPT !.count = 1, !.dtype = "float32", !.driver = "GTiff",
                 !.crs = crs, !.transform = transform]

\* the handles left open by open() calls without with blocks
UnwindLeak(open) == open

\* the handles left open when an exception leaves the with blocks of a call
Unwind(open) == {}

\* an exception leaves create_geotiff
CgFail(e) ==
    /\ cg' = [cg EXCEPT !.pc = "done", !.result = "error", !.error = e]
    /\ handles' = Unwind(handles)

CgFrame == <<entry, pc, status, exc, args, base_dir, found, vrt_files,
             output_files, prev, log, calls, pl>>

\* line 22
CgOpenSrc ==
    /\ cg.pc = "open_src"
    /\ IF CanOpen(cg.input_file)
         THEN /\ handles' = handles \cup {[name |-> "src", path |-> cg.input_file]}
              /\ cg' = [cg EXCEPT !.pc = "read"]
         ELSE CgFail("RasterioIOError: input")
    /\ UNCHANGED <<fs, CgFrame>>

\* lines 24-30
CgRead ==
    /\ cg.pc = "read"
    /\ IF cg.band \in 1..Dataset(cg.input_file).count
         THEN /\ cg' = [cg EXCEPT
                    !.data = Dataset(cg.input_file).bands[cg.band],
                    !.meta = Meta(Dataset(cg.input_file)),
                    !.pc = IF UsesReference(cg.input_file, cg.dem_file_path)
                           THEN "open_dem" ELSE "update_src"]
              /\ UNCHANGED handles
         ELSE CgFail("IndexError: band index out of range")
    /\ UNCHANGED <<fs, CgFrame>>

\* line 31
CgOpenDem ==
    /\ cg.pc = "open_dem"
    /\ IF CanOpen(cg.dem_file_path[1])
         THEN /\ handles' = handles \cup
                    {[name |-> "dem", path |-> cg.dem_file_path[1]]}
              /\ cg' = [cg EXCEPT !.pc = "update_dem"]
         ELSE CgFail("RasterioIOError: reference")
    /\ UNCHANGED <<fs, CgFrame>>

\* lines 32-38, and the end of the with block of line 31
CgUpdateFromDem ==
    /\ cg.pc = "update_dem"
    /\ cg' = [cg EXCEPT
          !.meta = MetaUpdate(cg.meta, Dataset(cg.dem_file_path[1]).crs,
                              Dataset(cg.dem_file_path[1]).transform),
          !.pc = "open_dst"]
    /\ handles' = handles \ {[name |-> "dem", path |-> cg.dem_file_path[1]]}
    /\ UNCHANGED <<fs, CgFrame>>

\* lines 40-46
CgUpdateFromSrc ==
    /\ cg.pc = "update_src"
    /\ cg' = [cg EXCEPT
          !.meta = MetaUpdate(cg.meta, Dataset(cg.input_file).crs,
                              Dataset(cg.input_file).transform),
          !.pc = "open_dst"]
    /\ UNCHANGED <<handles, fs, CgFrame>>

\* a new dataset can be created at path: its directory exists and the path
\* is no directory
CanCreate(path) ==
    /\ Lookup(path).ok
    /\ Lookup(path).at \notin fs.dirs

\* the dataset rasterio.open(path, 'w', **meta) creates, no band written yet
Created(meta) ==
    [valid |-> TRUE, driver |-> meta.driver, dtype |-> meta.dtype,
     count |-> meta.count, crs |-> meta.crs, transform |-> meta.transform,
     shape |-> meta.shape, bands |-> [b \in 1..meta.count |-> <<>>]]

\* line 49; ioOk is whether the device accepts the new file
CgOpenDst ==
    /\ cg.pc = "open_dst"
    /\ \E ioOk \in BOOLEAN :
         IF ioOk /\ CanCreate(cg.output_file)
           THEN /\ fs' = [fs EXCEPT !.files =
                            (Lookup(cg.output_file).at :> Created(cg.meta)) @@ @]
                /\ handles' = handles \cup
                      {[name |-> "dst", path |-> cg.output_file]}
                /\ cg' = [cg EXCEPT !.pc = "write"]
           ELSE /\ CgFail("RasterioIOError: output")
                /\ UNCHANGED fs
    /\ UNCHANGED CgFrame

\* line 50, and the end of the with block of line 49
CgWrite ==
    /\ cg.pc = "write"
    /\ \E ioOk \in BOOLEAN :
         IF ioOk
           THEN /\ fs' = [fs EXCEPT
                      !.files[Lookup(cg.output_file).at].bands[1] = cg.data]
                /\ handles' = handles \ {[name |-> "dst", path |-> cg.output_file]}
                /\ cg' = [cg EXCEPT !.pc = "close_src"]
           ELSE /\ CgFail("RasterioIOError: write")
                /\ UNCHANGED fs
    /\ UNCHANGED CgFrame

\* the end of the with block of line 22: create_geotiff returns
CgCloseSrc ==
    /\ cg.pc = "close_src"
    /\ handles' = handles \ {[name |-> "src", path |-> cg.input_file]}
    /\ cg' = [cg EXCEPT !.pc = "done", !.result = "ok"]
    /\ UNCHANGED <<fs, CgFrame>>

\* create_geotiff called on its own returns or raises to its caller
CgReturn ==
    /\ pc = "create_geotiff"
    /\ cg.pc = "done"
    /\ IF cg.result = "ok" THEN Return ELSE Raise(cg.error)
    /\ cg' = [cg EXCEPT !.pc = "idle"]
    /\ UNCHANGED <<entry, fs, args, base_dir, found, vrt_files, output_files,
                   prev, log, calls, pl, handles>>

(***************************************************************************)
(* convert_files: three try blocks, each one call of create_geotiff.       *)
(***************************************************************************)
\* the call inside a try block
ConvertCall(at, input_file, output_file, dem_file_path, band) ==
    /\ pc = at
    /\ cg.pc = "idle"
    /\ calls' = Append(calls, at)
    /\ cg' = CgCall(input_file, output_file, dem_file_path, band)
    /\ UNCHANGED <<entry, pc, status, exc, fs, args, base_dir, found,
                   vrt_files, output_files, prev, log, pl, handles>>

\* a try block without its except clause: the error leaves convert_files
ConvertDoneUncaught(at, what, next) ==
    /\ pc = at
    /\ cg.pc = "done"
    /\ cg' = CgIdle
    /\ IF cg.result = "ok"
         THEN /\ log' = Append(log, Printed(what, "completed", <<>>, ""))
              /\ IF next = "end" THEN Return
                 ELSE pc' = next /\ UNCHANGED <<status, exc>>
         ELSE /\ Raise(cg.error)
              /\ UNCHANGED log
    /\ UNCHANGED <<entry, fs, args, base_dir, found, vrt_files, output_files,
                   prev, calls, pl, handles>>

\* the rest of a try block: the print after the call, or the except clause
ConvertDone(at, what, next) ==
    /\ pc = at
    /\ cg.pc = "done"
    /\ cg' = CgIdle
    /\ log' = Append(log, IF cg.result = "ok"
                           THEN Printed(what, "completed", <<>>, "")
                           ELSE Printed(what, "error", <<>>, cg.error))
    /\ IF next = "end" THEN Return
       ELSE pc' = next /\ UNCHANGED <<status, exc>>
    /\ UNCHANGED <<entry, fs, args, base_dir, found, vrt_files, output_files,
                   prev, calls, pl, handles>>

\* lines 223-227
ConvertDem ==
    ConvertCall("convert_dem", vrt_files.dem, output_files.dem,
                Some(vrt_files.dem), 1)

ConvertDemDone == ConvertDone("convert_dem", "DEM", "convert_interferogram")

\* lines 230-234
ConvertInterferogram ==
    ConvertCall("convert_interferogram", vrt_files.interferogram,
                output_files.interferogram, Some(vrt_files.dem), 1)

ConvertInterferogramDone ==
    ConvertDone("convert_interferogram", "interferogram", "convert_correlation")

\* lines 237-241; convert_files and main return after it
ConvertCorrelation ==
    ConvertCall("convert_correlation", vrt_files.interferogram,
                output_files.correlation, Some(vrt_files.dem), 2)

ConvertCorrelationDone ==
    ConvertDone("convert_correlation", "correlation map", "end")

(***************************************************************************)
(* plot_complex_data.  A pixel is [re, im], each part one of "0", "1",     *)
(* "nan" and "inf"; a raster of a real sample type has im = "0".           *)
(***************************************************************************)
\* data == 0, element-wise
IsZero(z) == z.re = "0" /\ z.im = "0"

\* the array when the substitution is left out
NanNotSubstituted(data, dtype) == data

\* the sample types whose arrays can hold nan: the floating and the complex
CanHoldNan(dtype) ==
    dtype \in {"float32", "float64", "complex64", "complex128"}

\* data[data == 0] = np.nan inside try/except: a floating or complex array
\* takes nan (nan+0j) at its zeros; an integer array cannot hold nan, the
\* ValueError is swallowed and the array is left as it was
NanSubstituted(data, dtype) ==
    IF CanHoldNan(dtype)
    THEN [i \in 1..Len(data) |->
            IF IsZero(data[i]) THEN [re |-> "nan", im |-> "0"] ELSE data[i]]
    ELSE data

PartValue(x) == IF x = "1" THEN 1 ELSE 0

\* np.abs of one pixel: hypot(re, im), infinite when a part is infinite,
\* else nan when a part is nan, else the root of sq
Magnitude(z) ==
    IF z.re = "inf" \/ z.im = "inf" THEN [kind |-> "inf", sq |-> 0]
    ELSE IF z.re = "nan" \/ z.im = "nan" THEN [kind |-> "nan", sq |-> 0]
    ELSE [kind |-> "finite",
          sq |-> PartValue(z.re) * PartValue(z.re)
                 + PartValue(z.im) * PartValue(z.im)]

\* np.angle of one pixel: arctan2(im, re)
Angle(z) ==
    IF z.re = "nan" \/ z.im = "nan" THEN "nan"
    ELSE IF z.im = "0" THEN "0"
    ELSE IF z.im = "1" THEN (IF z.re = "0" THEN "pi/2"
                             ELSE IF z.re = "1" THEN "pi/4" ELSE "0")
    ELSE IF z.re = "inf" THEN "pi/4" ELSE "pi/2"

\* np.isnan of one amplitude
IsNan(a) == a.kind = "nan"

\* np.abs(data)
Amplitude(data) == [i \in 1..Len(data) |-> Magnitude(data[i])]

\* np.angle(data)
Phase(data) == [i \in 1..Len(data) |-> Angle(data[i])]

\* (~np.isnan(amplitude)).astype(np.uint8)
ValidMask(amplitude) ==
    [i \in 1..Len(amplitude) |-> IF IsNan(amplitude[i]) THEN 0 ELSE 1]

\* amplitude.dtype
AmplitudeDtype(dtype) ==
    IF dtype = "complex64" THEN "float32"
    ELSE IF dtype = "complex128" THEN "float64"
    ELSE dtype

PlIdle ==
    [pc |-> "idle", raster_filename |-> <<>>, output_filename |-> <<>>,
     dem_file |-> NoneArg, title |-> NoneArg, dtype |-> "", data |-> <<>>,
     transform |-> "", crs |-> "", png |-> FALSE, result |-> "none",
     error |-> ""]

PlCall(raster_filename, output_filename, dem_file, title) ==
    [PlIdle EXCEPT !.pc = "open_src", !.raster_filename = raster_filename,
                   !.output_filename = output_filename, !.dem_file = dem_file,
                   !.title = title]

\* an exception leaves plot_complex_data
PlFail(e) ==
    /\ pl' = [pl EXCEPT !.pc = "done", !.result = "error", !.error = e]
    /\ handles' = Unwind(handles)

PlFrame == <<entry, pc, status, exc, args, base_dir, found, vrt_files,
             output_files, prev, calls, cg>>

\* line 22
PlOpenSrc ==
    /\ pl.pc = "open_src"
    /\ IF CanOpen(pl.raster_filename)
         THEN /\ handles' = handles \cup
                    {[name |-> "src", path |-> pl.raster_filename]}
              /\ pl' = [pl EXCEPT !.pc = "read"]
         ELSE PlFail("RasterioIOError: input")
    /\ UNCHANGED <<fs, log, PlFrame>>

\* lines 24-32
PlRead ==
    /\ pl.pc = "read"
    /\ pl' = [pl EXCEPT
          !.data = Dataset(pl.raster_filename).bands[1],
          !.dtype = Dataset(pl.raster_filename).dtype,
          !.transform = Dataset(pl.raster_filename).transform,
          !.crs = Dataset(pl.raster_filename).crs,
          !.pc = IF Dataset(pl.raster_filename).transform = "identity"
                    /\ Truthy(pl.dem_file)
                 THEN "open_dem" ELSE "close_src"]
    /\ UNCHANGED <<handles, fs, log, PlFrame>>

\* lines 33-34: the warning is printed before the DEM is opened
PlOpenDem ==
    /\ pl.pc = "open_dem"
    /\ log' = Append(log,
                     Printed("", "Warning: Input file has no geospatial information",
                             <<>>, ""))
    /\ IF CanOpen(pl.dem_file[1])
         THEN /\ handles' = handles \cup
                    {[name |-> "dem", path |-> pl.dem_file[1]]}
              /\ pl' = [pl EXCEPT !.pc = "use_dem"]
         ELSE PlFail("RasterioIOError: reference")
    /\ UNCHANGED <<fs, PlFrame>>

\* lines 35-37, and the end of the with block of line 34
PlUseDem ==
    /\ pl.pc = "use_dem"
    /\ pl' = [pl EXCEPT !.transform = Dataset(pl.dem_file[1]).transform,
                        !.crs = Dataset(pl.dem_file[1]).crs,
                        !.pc = "close_src"]
    /\ handles' = handles \ {[name |-> "dem", path |-> pl.dem_file[1]]}
    /\ UNCHANGED <<fs, log, PlFrame>>

\* lines 40-43, and the end of the with block of line 22
PlCloseSrc ==
    /\ pl.pc = "close_src"
    /\ handles' = handles \ {[name |-> "src", path |-> pl.raster_filename]}
    /\ pl' = [pl EXCEPT !.pc = "figure"]
    /\ UNCHANGED <<fs, log, PlFrame>>

\* s.replace(old, new), old not empty
RECURSIVE Replace(_, _, _)
Replace(s, old, new) ==
    IF s = <<>> THEN <<>>
    ELSE IF StartsWith(s, old)
      THEN new \o Replace(SubSeq(s, Len(old) + 1, Len(s)), old, new)
    ELSE <<Head(s)>> \o Replace(Tail(s), old, new)

\* line 85
PngFilename(output_filename) ==
    Replace(output_filename, <<".","t","i","f">>, <<".","p","n","g">>)

\* the image file plt.savefig leaves
PngImage ==
    [valid |-> TRUE, driver |-> "PNG", dtype |-> "uint8", count |-> 4,
     crs |-> "", transform |-> "identity", shape |-> "figure",
     bands |-> <<<<"r">>, <<"g">>, <<"b">>, <<"a">>>>]

\* lines 45-87: the substitution, the two panels and savefig.  title + "..."
\* raises TypeError for the default title None; savefig needs a place where
\* the image file can be created, and ioOk is whether the write succeeds
PlFigure ==
    /\ pl.pc = "figure"
    /\ \E ioOk \in BOOLEAN :
         IF pl.title = NoneArg
           THEN /\ pl' = [pl EXCEPT !.data = NanSubstituted(pl.data, pl.dtype),
                                    !.pc = "done", !.result = "error",
                                    !.error = "TypeError: title"]
                /\ UNCHANGED fs
         ELSE IF ioOk /\ CanCreate(PngFilename(pl.output_filename))
           THEN /\ pl' = [pl EXCEPT !.data = NanSubstituted(pl.data, pl.dtype),
                                    !.png = TRUE, !.pc = "open_dst"]
                /\ fs' = [fs EXCEPT !.files =
                            (Lookup(PngFilename(pl.output_filename)).at
                                :> PngImage) @@ @]
         ELSE /\ pl' = [pl EXCEPT !.data = NanSubstituted(pl.data, pl.dtype),
                                  !.pc = "done", !.result = "error",
                                  !.error = "OSError: savefig"]
              /\ UNCHANGED fs
    /\ handles' = IF pl'.result = "error" THEN Unwind(handles) ELSE handles
    /\ UNCHANGED <<log, PlFrame>>

\* the dataset of lines 94-104, no band written yet
PlCreated ==
    [valid |-> TRUE, driver |-> "GTiff", dtype |-> AmplitudeDtype(pl.dtype),
     count |-> 3, crs |-> IF pl.crs # "" THEN pl.crs ELSE "EPSG:4326",
     transform |-> pl.transform, shape |-> Len(pl.data),
     bands |-> <<<<>>, <<>>, <<>>>>, descriptions |-> <<"", "", "">>]

\* lines 90-104
PlOpenDst ==
    /\ pl.pc = "open_dst"
    /\ \E ioOk \in BOOLEAN :
         IF ioOk /\ CanCreate(pl.output_filename)
           THEN /\ fs' = [fs EXCEPT !.files =
                            (Lookup(pl.output_filename).at :> PlCreated) @@ @]
                /\ handles' = handles \cup
                      {[name |-> "dst", path |-> pl.output_filename]}
                /\ pl' = [pl EXCEPT !.pc = "write_amplitude"]
           ELSE /\ PlFail("RasterioIOError: output")
                /\ UNCHANGED fs
    /\ UNCHANGED <<log, PlFrame>>

\* one dst.write(array, band): the band is stored, or the write raises and
\* the bands written before it stay
PlWriteBand(at, band, array, next) ==
    /\ pl.pc = at
    /\ \E ioOk \in BOOLEAN :
         IF ioOk
           THEN /\ fs' = [fs EXCEPT
                      !.files[Lookup(pl.output_filename).at].bands[band] = array]
                /\ pl' = [pl EXCEPT !.pc = next]
                /\ UNCHANGED handles
           ELSE /\ PlFail("RasterioIOError: write")
                /\ UNCHANGED fs
    /\ UNCHANGED <<log, PlFrame>>

\* line 106
PlWriteAmplitude ==
    PlWriteBand("write_amplitude", 1, Amplitude(pl.data), "write_phase")

\* line 109
PlWritePhase ==
    PlWriteBand("write_phase", 2, Phase(pl.data), "write_mask")

\* lines 112-113
PlWriteMask ==
    PlWriteBand("write_mask", 3, ValidMask(Amplitude(pl.data)), "describe")

\* lines 116-121, and the end of the with block of line 94
PlDescribe ==
    /\ pl.pc = "describe"
    /\ fs' = [fs EXCEPT
          !.files[Lookup(pl.output_filename).at].descriptions =
              <<"Amplitude", "Phase [rad]", "Valid data mask">>]
    /\ handles' = handles \ {[name |-> "dst", path |-> pl.output_filename]}
    /\ pl' = [pl EXCEPT !.pc = "done", !.result = "ok"]
    /\ UNCHANGED <<log, PlFrame>>

\* plot_complex_data returns or raises to its caller
PlReturn ==
    /\ pc = "plot_complex_data"
    /\ pl.pc = "done"
    /\ IF pl.result = "ok" THEN Return ELSE Raise(pl.error)
    /\ pl' = [pl EXCEPT !.pc = "idle"]
    /\ UNCHANGED <<entry, fs, args, base_dir, found, vrt_files, output_files,
                   prev, log, calls, cg, handles>>

(***************************************************************************)
(* The inputs the runs start from.                                         *)
(***************************************************************************)
\* the longest raster plot_complex_data is given, in pixels
MaxPixels == 2

\* the highest band number create_geotiff is asked for
MaxBand == 3

DirD == <<"/","d","/","S">>

DirDSlash == <<"/","d","/","S","/">>

DirRel == <<"S">>

DirDem == <<"/","d","e","m","/","S">>

DirMissing == <<"/","n">>

\* the results directory, named through a directory that does not exist
DirViaMissing == <<"/","n","/",".",".","/","d","/","S">>

\* the empty string: abspath makes it the working directory
DirEmpty == <<>>

\* --input-dir, absolute or relative, with or without a trailing separator,
\* with or without "dem" in a directory name, existing or not
InputDirs ==
    {DirD, DirDSlash, DirRel, DirDem, DirMissing, DirViaMissing, DirEmpty}

\* --output-dir
OutputDirs == {<<"/","o">>, <<"o","/">>}

NameA == <<"a">> \o DemSuffix

NameB == <<"b">> \o DemSuffix

\* a name that holds the suffix without ending in it
NameK == DemSuffix \o <<"k">>

FileNames == {NameA, NameB, NameK}

DemRaster ==
    Raster("VRT", "int16", "EPSG:4326", "T_dem", "2x1", <<<<"h1", "h2">>>>)

\* the unwrapped interferogram: amplitude and phase bands, no referencing
IfgRaster(n) ==
    Raster("VRT", "float32", "", "identity", "2x1",
           SubSeq(<<<<"a1", "a2">>, <<"c1", "c2">>>>, 1, n))

\* what a file of the results directory holds: a.dem.wgs84.vrt is a DEM,
\* the other two are no rasters
Content(name) == IF name = NameA THEN DemRaster ELSE NotARaster

IfgStates == {"none", "dir", "one band", "two bands"}

OutStates == {"absent", "dir", "file"}

\* a results directory base (resolved) with the files names, the
\* interferogram directory in state ifg, and the output root in state out
ResultsFs(present, base, names, ifg, outRoot, out) ==
    LET ifgDir == Append(base, InterferogramDirName)
        unw == Append(ifgDir, UnwFileName)
        root == AbsComponents(outRoot)
        inBase == [p \in {Append(base, n) : n \in names} |->
                      Content(p[Len(p)])]
        inIfg == IF ifg = "one band" THEN unw :> IfgRaster(1)
                 ELSE IF ifg = "two bands" THEN unw :> IfgRaster(2)
                 ELSE EmptyDict
        atRoot == IF out = "file" THEN root :> NotARaster ELSE EmptyDict
    IN  [dirs |-> Ancestors(AbsComponents(Cwd))
                  \cup (IF present THEN Ancestors(base) ELSE {})
                  \cup (IF present /\ ifg # "none" THEN {ifgDir} ELSE {})
                  \cup (IF out = "dir" THEN Ancestors(root) ELSE {}),
         files |-> IF present THEN inBase @@ inIfg @@ atRoot ELSE atRoot,
         made |-> {}]

Fixtures(dir, roots, outs) ==
    {ResultsFs(dir # DirMissing, AbsComponents(dir), names, ifg, root, out) :
        names \in SUBSET FileNames, ifg \in IfgStates,
        root \in roots, out \in outs}

InitCommon ==
    /\ status = "running"
    /\ exc = ""
    /\ found = EmptyDict
    /\ vrt_files = EmptyDict
    /\ output_files = EmptyDict
    /\ prev = [called |-> FALSE, files |-> EmptyDict, dirs |-> {}]
    /\ log = <<>>
    /\ calls = <<>>
    /\ handles = {}

\* python convert_to_geotiff.py --input-dir ... [--output-dir ...]
InitMain ==
    /\ entry = "main"
    /\ pc = "main"
    /\ \E dir \in InputDirs, root \in OutputDirs :
         /\ args = [input_dir |-> dir, output_dir |-> root]
         /\ fs \in Fixtures(dir, {root}, OutStates)
    /\ base_dir = <<>>
    /\ cg = CgIdle
    /\ pl = PlIdle
    /\ InitCommon

\* find_vrt_files(base_dir)
InitFind ==
    /\ entry = "find_vrt_files"
    /\ pc = "find_dem"
    /\ \E dir \in InputDirs :
         /\ args = [input_dir |-> dir, output_dir |-> <<>>]
         /\ base_dir = dir
         /\ fs \in Fixtures(dir, {<<"/","o">>}, {"absent"})
    /\ cg = CgIdle
    /\ pl = PlIdle
    /\ InitCommon

\* the dicts validate_vrt_files is given on its own
ValidateInputs ==
    {EmptyDict,
     [dem |-> PathJoin(DirD, NameA)],
     [dem |-> PathJoin(DirD, NameK), interferogram |-> UnwFile(DirD)],
     [dem |-> PathJoin(DirD, NameA), interferogram |-> PathJoin(DirD, NameK)],
     [dem |-> PathJoin(DirDem, NameB), interferogram |-> UnwFile(DirDem)],
     [dem |-> DemSuffix, interferogram |-> UnwFileName]}

\* validate_vrt_files(vrt_files)
InitValidate ==
    /\ entry = "validate_vrt_files"
    /\ pc = "validate"
    /\ args = [input_dir |-> <<>>, output_dir |-> <<>>]
    /\ base_dir = <<>>
    /\ fs = ResultsFs(FALSE, <<>>, {}, "none", <<"/","o">>, "absent")
    /\ cg = CgIdle
    /\ pl = PlIdle
    /\ InitCommon

\* generate_output_file_names(vrt_files, output_dir, input_dir), called twice
InitGenerate ==
    /\ entry = "generate_output_file_names"
    /\ pc = "generate"
    /\ \E dir \in InputDirs, root \in OutputDirs :
         /\ args = [input_dir |-> dir, output_dir |-> root]
         /\ base_dir = dir
         /\ \E out \in OutStates, scene \in BOOLEAN :
              LET f == ResultsFs(TRUE, AbsComponents(dir), {NameA}, "two bands",
                                 root, out)
              IN  fs = IF scene /\ out = "dir"
                       THEN [f EXCEPT !.dirs = @ \cup
                               Ancestors(AbsComponents(SceneOutputDir(root, dir)))]
                       ELSE f
    /\ cg = CgIdle
    /\ pl = PlIdle
    /\ InitCommon

\* create_geotiff(input_file, output_file, dem_file_path, band)
InitCreate ==
    /\ entry = "create_geotiff"
    /\ pc = "create_geotiff"
    /\ args = [input_dir |-> <<>>, output_dir |-> <<>>]
    /\ base_dir = <<>>
    /\ \E dir \in {DirD, DirDem}, out \in OutStates :
         /\ fs = ResultsFs(TRUE, AbsComponents(dir), FileNames, "two bands",
                           <<"/","o">>, out)
         /\ \E input_file \in {PathJoin(dir, NameA), PathJoin(dir, NameB),
                               UnwFile(dir), PathJoin(dir, <<"q">>)},
               dem_file_path \in {NoneArg, Some(<<>>),
                                  Some(PathJoin(dir, NameA)),
                                  Some(PathJoin(dir, NameB))},
               band \in 1..MaxBand :
              cg = CgCall(input_file, <<"/","o","/","t",".","t","i","f">>,
                          dem_file_path, band)
    /\ pl = PlIdle
    /\ InitCommon

\* the parts of a pixel, and the pixels the rasters are drawn from: zero,
\* finite values, nan and infinite ones
PixelValues ==
    {[re |-> "0", im |-> "0"], [re |-> "1", im |-> "0"],
     [re |-> "0", im |-> "1"], [re |-> "1", im |-> "1"],
     [re |-> "nan", im |-> "0"], [re |-> "0", im |-> "nan"],
     [re |-> "inf", im |-> "nan"]}

RealPixelValues == {[re |-> "0", im |-> "0"], [re |-> "1", im |-> "0"]}

Arrays(values) == UNION {[1..n -> values] : n \in 1..MaxPixels}

PlotRasters ==
    {Raster("VRT", "complex64", "", t, "", <<d>>) :
        t \in {"identity", "T_src"}, d \in Arrays(PixelValues)}
    \cup {Raster("VRT", dtype, "", "identity", "", <<d>>) :
            dtype \in {"int16", "float32"}, d \in Arrays(RealPixelValues)}

PlotIn == <<"/","d","/","f",".","v","r","t">>

PlotDem == <<"/","d","/","a">> \o DemSuffix

PlotOut == <<"/","o","/","f",".","t","i","f">>

\* plot_complex_data(raster_filename, output_filename, dem_file, title)
InitPlot ==
    /\ entry = "plot_complex_data"
    /\ pc = "plot_complex_data"
    /\ args = [input_dir |-> <<>>, output_dir |-> <<>>]
    /\ base_dir = <<>>
    /\ \E r \in PlotRasters, out \in {"absent", "dir"}, there \in BOOLEAN :
         fs = [dirs |-> Ancestors(AbsComponents(Cwd)) \cup Ancestors(<<<<"d">>>>)
                        \cup (IF out = "dir" THEN {<<<<"o">>>>} ELSE {}),
               files |-> IF there
                         THEN (AbsComponents(PlotIn) :> r)
                              @@ (AbsComponents(PlotDem) :> DemRaster)
                         ELSE (AbsComponents(PlotDem) :> DemRaster),
               made |-> {}]
    /\ \E dem_file \in {NoneArg, Some(PlotDem), Some(<<"/","d","/","q">>)},
          title \in {NoneArg, Some(<<"t">>)} :
         pl = PlCall(PlotIn, PlotOut, dem_file, title)
    /\ cg = CgIdle
    /\ InitCommon

Init ==
    \/ InitMain
    \/ InitFind
    \/ InitValidate
    \/ InitGenerate
    \/ InitCreate
    \/ InitPlot

\* a main that builds the output paths before it looks for the inputs
MainStartGenerateFirst ==
    /\ pc = "main"
    /\ base_dir' = AbsPath(args.input_dir)
    /\ log' = Append(log, Printed("", "Processing directory",
                                    AbsPath(args.input_dir), ""))
    /\ calls' = Append(calls, "generate_output_file_names")
    /\ fs' = [fs EXCEPT
          !.dirs = Makedirs(SceneOutputDir(args.output_dir,
                                           AbsPath(args.input_dir))).dirs,
          !.made = @ \cup (Makedirs(SceneOutputDir(args.output_dir,
                                           AbsPath(args.input_dir))).dirs
                          \ fs.dirs)]
    /\ pc' = "find_dem"
    /\ UNCHANGED <<entry, status, exc, args, found, vrt_files,
                   output_files, prev, cg, pl, handles>>

\* lines 247-251
MainStart ==
    /\ pc = "main"
    /\ base_dir' = AbsPath(args.input_dir)
    /\ log' = Append(log, Printed("", "Processing directory",
                                    AbsPath(args.input_dir), ""))
    /\ pc' = "find_dem"
    /\ UNCHANGED <<entry, status, exc, fs, args, found, vrt_files,
                   output_files, prev, calls, cg, pl, handles>>

\* the exit status of the process: an exception that leaves main ends the
\* interpreter with status 1
ExitStatus == IF status = "raised" THEN 1 ELSE 0

Next ==
    \/ MainStart
    \/ FindDemFile
    \/ FindInterferogramFile
    \/ ValidateVrtFiles
    \/ GenerateOutputFileNames
    \/ GenerateAgain
    \/ ConvertDem
    \/ ConvertDemDone
    \/ ConvertInterferogram
    \/ ConvertInterferogramDone
    \/ ConvertCorrelation
    \/ ConvertCorrelationDone
    \/ CgOpenSrc
    \/ CgRead
    \/ CgOpenDem
    \/ CgUpdateFromDem
    \/ CgUpdateFromSrc
    \/ CgOpenDst
    \/ CgWrite
    \/ CgCloseSrc
    \/ CgReturn
    \/ PlOpenSrc
    \/ PlRead
    \/ PlOpenDem
    \/ PlUseDem
    \/ PlCloseSrc
    \/ PlFigure
    \/ PlOpenDst
    \/ PlWriteAmplitude
    \/ PlWritePhase
    \/ PlWriteMask
    \/ PlDescribe
    \/ PlReturn

Spec == Init /\ [][Next]_vars

(***************************************************************************)
(* Properties.                                                             *)
(***************************************************************************)
Range(seq) == {seq[i] : i \in 1..Len(seq)}

IsPrefix(a, b) == Len(a) <= Len(b) /\ a = SubSeq(b, 1, Len(a))

Last(seq) == seq[Len(seq)]

LocatorCalls ==
    {"find_dem_file", "find_interferogram_file", "validate_vrt_files"}

ConvertCalls ==
    <<"convert_dem", "convert_interferogram", "convert_correlation">>

JobNames == <<"DEM", "interferogram", "correlation map">>

IsConvertCall(c) == c \in Range(ConvertCalls)

IsJobLine(l) == l.job # ""

\* the calls of create_geotiff made so far
JobCalls == SelectSeq(calls, IsConvertCall)

\* the log lines of the conversion jobs
JobLines == SelectSeq(log, IsJobLine)

\* the names directly under dir that end with dem.wgs84.vrt
DemFiles(dir) ==
    {n \in {p[Len(p)] : p \in {q \in DOMAIN fs.files :
                                  /\ Len(q) = Len(Lookup(dir).at) + 1
                                  /\ SubSeq(q, 1, Len(q) - 1) = Lookup(dir).at}} :
        /\ Len(n) >= Len(DemSuffix)
        /\ SubSeq(n, Len(n) - Len(DemSuffix) + 1, Len(n)) = DemSuffix}

\* the locator ran on base_dir, and base_dir names a directory
Located ==
    /\ entry \in {"main", "find_vrt_files"}
    /\ calls # <<>>
    /\ IsDir(base_dir)

\* the run ended with an error of the locator or the validator
LocatorRaised ==
    /\ status = "raised"
    /\ calls # <<>>
    /\ Last(calls) \in LocatorCalls

\* C1: for every base directory with zero, or with two or more, files whose
\* name ends with dem.wgs84.vrt, the locator raises (not-found for zero, an
\* error of find_dem_file for two or more) and no mapping reaches the caller.
C1_DemCountIsAnError ==
    (Located /\ Cardinality(DemFiles(base_dir)) # 1)
    => /\ status = "raised"
       /\ calls = <<"find_dem_file">>
       /\ vrt_files = EmptyDict
       /\ (DemFiles(base_dir) = {} => exc = "ValueError: DEM file not found")

\* C2: for every base directory with exactly one file ending in
\* dem.wgs84.vrt directly under it and the file
\* interferogram/filt_topophase.unw.vrt, the locator does not raise, the
\* mapping it returns has exactly the keys dem and interferogram, each bound
\* to the path of the matching file, and validate_vrt_files accepts it.
C2_BothRolesFound ==
    (/\ Located
     /\ Cardinality(DemFiles(base_dir)) = 1
     /\ Lookup(base_dir).at \o <<InterferogramDirName, UnwFileName>>
            \in DOMAIN fs.files)
    => /\ ~LocatorRaised
       /\ "validate_vrt_files" \in Range(calls)
            => /\ DOMAIN vrt_files = {"dem", "interferogram"}
               /\ \E n \in DemFiles(base_dir) :
                     Lookup(vrt_files.dem).at = Append(Lookup(base_dir).at, n)
               /\ Lookup(vrt_files.interferogram).at
                     = Lookup(base_dir).at \o <<InterferogramDirName, UnwFileName>>
               /\ ValidateError(vrt_files) = ""
               /\ (entry = "find_vrt_files" => status = "returned")

\* C2 witness: find_vrt_files returned the mapping for a directory that also
\* holds a file with the suffix inside its name.
C2_Witness ==
    /\ entry = "find_vrt_files"
    /\ status = "returned"
    /\ DOMAIN vrt_files = {"dem", "interferogram"}
    /\ Cardinality(DemFiles(base_dir)) = 1
    /\ Cardinality(ListDir(base_dir)) = 3
    /\ base_dir = DirDSlash

\* C3: convert_files attempts the three conversions in the order DEM,
\* interferogram, correlation whatever the earlier ones did, prints exactly
\* one completed-or-error line per job, never raises, and the run of main
\* ends with exit status zero; until then a call of create_geotiff is running
\* or the next try block can go on.
C3_AllJobsAttempted ==
    (entry = "main" /\ JobCalls # <<>>)
    => /\ IsPrefix(JobCalls, ConvertCalls)
       /\ IsPrefix([i \in 1..Len(JobLines) |-> JobLines[i].job], JobNames)
       /\ \A i \in 1..Len(JobLines) : JobLines[i].line \in {"completed", "error"}
       /\ Len(JobLines) <= Len(JobCalls)
       /\ Len(JobCalls) <= Len(JobLines) + 1
       /\ status # "raised"
       /\ pc # "end" => \/ cg.pc \notin {"idle", "done"}
                        \/ ENABLED (\/ ConvertDem \/ ConvertDemDone
                                    \/ ConvertInterferogram
                                    \/ ConvertInterferogramDone
                                    \/ ConvertCorrelation
                                    \/ ConvertCorrelationDone)
       /\ pc = "end" => /\ Len(JobCalls) = 3
                        /\ Len(JobLines) = 3
                        /\ status = "returned"
                        /\ ExitStatus = 0

\* C3 witness: main ended after the DEM job failed, the interferogram job
\* succeeded and the correlation job failed.
C3_Witness ==
    /\ entry = "main"
    /\ pc = "end"
    /\ Len(JobLines) = 3
    /\ JobLines[1].job = "DEM" /\ JobLines[1].line = "error"
    /\ JobLines[2].job = "interferogram" /\ JobLines[2].line = "completed"
    /\ JobLines[3].job = "correlation map" /\ JobLines[3].line = "error"

\* the GeoTIFF at path holds band b of the raster at from, under the
\* referencing of the raster at ref
HoldsBand(path, from, b, ref) ==
    /\ AbsComponents(path) \in DOMAIN fs.files
    /\ fs.files[AbsComponents(path)].bands = <<fs.files[AbsComponents(from)].bands[b]>>
    /\ fs.files[AbsComponents(path)].crs = fs.files[AbsComponents(ref)].crs
    /\ fs.files[AbsComponents(path)].transform = fs.files[AbsComponents(ref)].transform

JobCompleted(name) ==
    \E i \in 1..Len(JobLines) :
        JobLines[i].job = name /\ JobLines[i].line = "completed"

\* C4: for every input directory, a completed DEM job wrote band 1 of the
\* DEM under the DEM's referencing, a completed interferogram job wrote
\* band 1 of the interferogram under the DEM's referencing, and a completed
\* correlation job wrote band 2 of the interferogram under the DEM's
\* referencing.
C4_JobsUseDemReferencing ==
    entry = "main"
    => /\ JobCompleted("DEM")
            => HoldsBand(output_files.dem, vrt_files.dem, 1, vrt_files.dem)
       /\ JobCompleted("interferogram")
            => HoldsBand(output_files.interferogram, vrt_files.interferogram,
                         1, vrt_files.dem)
       /\ JobCompleted("correlation map")
            => HoldsBand(output_files.correlation, vrt_files.interferogram,
                         2, vrt_files.dem)

\* C5: when create_geotiff completes, the coordinate reference system and
\* the transform of the output both come from the reference raster if a
\* reference path is given (neither None nor the empty string) and "dem"
\* does not occur in the input path, and both from the input raster
\* otherwise: never one of each.
C5_ReferencingFromOneRaster ==
    (cg.pc = "done" /\ cg.result = "ok")
    => LET out == fs.files[AbsComponents(cg.output_file)]
           from == IF /\ cg.dem_file_path # NoneArg
                      /\ cg.dem_file_path[1] # <<>>
                      /\ \A i \in 1..(Len(cg.input_file) - 2) :
                            SubSeq(cg.input_file, i, i + 2) # DemWord
                   THEN fs.files[AbsComponents(cg.dem_file_path[1])]
                   ELSE fs.files[AbsComponents(cg.input_file)]
       IN  /\ out.crs = from.crs
           /\ out.transform = from.transform

\* C5 witness: a call completed that borrowed a referencing different from
\* the input's in both parts.
C5_Witness ==
    /\ cg.pc = "done"
    /\ cg.result = "ok"
    /\ cg.dem_file_path # NoneArg
    /\ fs.files[AbsComponents(cg.output_file)].crs
          # fs.files[AbsComponents(cg.input_file)].crs
    /\ fs.files[AbsComponents(cg.output_file)].transform
          # fs.files[AbsComponents(cg.input_file)].transform

\* the last component of a path that is not empty
LastComponent(path) ==
    LET comps == SelectSeq(SplitSep(path), LAMBDA c : c # <<>>)
    IN  IF comps = <<>> THEN <<>> ELSE comps[Len(comps)]

RoleChars ==
    [dem |-> <<"d","e","m">>,
     interferogram |-> <<"i","n","t","e","r","f","e","r","o","g","r","a","m">>,
     correlation |-> <<"c","o","r","r","e","l","a","t","i","o","n">>]

\* C6: for every output root and every input directory, absolute or
\* relative, with or without a trailing separator, the paths returned are
\* those of the roles dem, interferogram and correlation, each
\* output_root/scene/{scene}_{role}.tif with scene the final component of
\* the input directory.
C6_OutputPathsUnderSceneName ==
    (/\ entry \in {"main", "generate_output_file_names"}
     /\ "generate_output_file_names" \in Range(calls)
     /\ status # "raised")
    => /\ DOMAIN output_files = {"dem", "interferogram", "correlation"}
       /\ \A role \in DOMAIN output_files :
            AbsComponents(output_files[role])
              = AbsComponents(args.output_dir)
                \o <<LastComponent(base_dir),
                     LastComponent(base_dir) \o <<"_">> \o RoleChars[role]
                        \o <<".","t","i","f">>>>

\* C7: a second call of generate_output_file_names with the same arguments,
\* after a first that succeeded, does not raise, returns the paths the first
\* returned and leaves the set of directories as the first left it.
C7_GenerateIdempotent ==
    (entry = "generate_output_file_names" /\ prev.called)
    => /\ status = "returned"
       /\ output_files = prev.files
       /\ fs.dirs = prev.dirs

\* C7 witness: the second call returned, and the first had created the
\* scene directory.
C7_Witness ==
    /\ entry = "generate_output_file_names"
    /\ prev.called
    /\ status = "returned"
    /\ fs.made # {}

\* plot_complex_data wrote the GeoTIFF of a complex-valued raster
PlotWritten ==
    /\ pl.pc = "done"
    /\ pl.result = "ok"
    /\ fs.files[AbsComponents(pl.raster_filename)].dtype = "complex64"

SourcePixels == fs.files[AbsComponents(pl.raster_filename)].bands[1]

\* a pixel with a not-a-number magnitude: a part is nan and none is infinite
NanMagnitude(z) ==
    /\ z.re = "nan" \/ z.im = "nan"
    /\ z.re # "inf" /\ z.im # "inf"

\* C8 as stated: for every complex-valued raster, band 3 is 0 exactly at the
\* pixels whose source value is exactly zero and 1 elsewhere, and the
\* amplitude is not-a-number at exactly those pixels.
C8_MaskZeroExactlyAtZeros ==
    PlotWritten
    => \A i \in 1..Len(SourcePixels) :
          /\ fs.files[AbsComponents(pl.output_filename)].bands[3][i]
                = (IF SourcePixels[i] = [re |-> "0", im |-> "0"] THEN 0 ELSE 1)
          /\ (Magnitude(pl.data[i]).kind = "nan")
                <=> (SourcePixels[i] = [re |-> "0", im |-> "0"])

\* C8 amended: for every complex-valued raster, band 3 is 0 exactly at the
\* pixels whose source value is exactly zero or has a not-a-number
\* magnitude, and 1 elsewhere, and the amplitude is not-a-number at exactly
\* those pixels.
C8_MaskZeroAtZerosAndNans ==
    PlotWritten
    => /\ Len(fs.files[AbsComponents(pl.output_filename)].bands[3])
            = Len(SourcePixels)
       /\ \A i \in 1..Len(SourcePixels) :
            /\ fs.files[AbsComponents(pl.output_filename)].bands[3][i]
                  = (IF \/ SourcePixels[i] = [re |-> "0", im |-> "0"]
                        \/ NanMagnitude(SourcePixels[i])
                     THEN 0 ELSE 1)
            /\ (Magnitude(pl.data[i]).kind = "nan")
                  <=> (\/ SourcePixels[i] = [re |-> "0", im |-> "0"]
                       \/ NanMagnitude(SourcePixels[i]))
            /\ fs.files[AbsComponents(pl.output_filename)].bands[1][i]
                  = Magnitude(pl.data[i])

\* C8 witness: a written raster with a zero pixel and a non-zero pixel.
C8_Witness ==
    /\ PlotWritten
    /\ Len(SourcePixels) = 2
    /\ SourcePixels[1] = [re |-> "0", im |-> "0"]
    /\ SourcePixels[2] = [re |-> "1", im |-> "1"]
    /\ fs.files[AbsComponents(pl.output_filename)].bands[3] = <<0, 1>>

PipelineOrder ==
    <<"find_dem_file", "find_interferogram_file", "validate_vrt_files",
      "generate_output_file_names">> \o ConvertCalls

\* C9: in every run of main the steps are called in the order locator,
\* validator, output path builder, batch converter, and an error of the
\* locator or the validator ends the run with a failure before any directory
\* is created and before any conversion is attempted.
C9_PipelineOrder ==
    entry = "main"
    => /\ IsPrefix(calls, PipelineOrder)
       /\ fs.made # {} => "generate_output_file_names" \in Range(calls)
       /\ LocatorRaised
            => /\ pc = "end"
               /\ ExitStatus = 1
               /\ fs.made = {}
               /\ JobCalls = <<>>
               /\ ~ENABLED Next

\* C9 witness: main ended on the error of find_interferogram_file.
C9_Witness ==
    /\ entry = "main"
    /\ LocatorRaised
    /\ Last(calls) = "find_interferogram_file"
    /\ Len(log) = 2

\* C10: once a call of create_geotiff or plot_complex_data has ended,
\* returning or raising at any step, no raster handle it opened is open.
C10_NoHandleLeftOpen ==
    /\ cg.pc \in {"done", "idle"} /\ pl.pc \in {"done", "idle"}
          => handles = {}
    /\ pc = "end" => handles = {}

\* C10 witness: create_geotiff raised while writing, with the input and the
\* output both open.
C10_Witness ==
    /\ cg.pc = "done"
    /\ cg.error = "RasterioIOError: write"
    /\ handles = {}

====
